---- MODULE Spec2Model ----
(***************************************************************************)
(* Model of the invoice financial engine of bewegungsradius-crm:           *)
(* Invoice.save() (invoices/models.py), the pre_save / post_save receivers *)
(* of invoices/signals.py, the accounting receiver of accounting/models.py *)
(* and the admin handlers that change an invoice's status.                 *)
(* Further sections model the courses with their scheduled email tasks    *)
(* (courses/models.py, services.py, tasks.py), the participants of a       *)
(* course with their invoices and discount codes, the invoice numbers,     *)
(* the invoice dates and the tax calculator.                               *)
(*                                                                         *)
(* Money is a Decimal in the source.  Here a money value is an integer     *)
(* number of 1/10000 EUR, so that a percentage discount of a two-decimal   *)
(* amount is exact, as it is for Decimal.  None is Python's None / SQL     *)
(* NULL.                                                                   *)
(***************************************************************************)
EXTENDS Integers, Sequences, FiniteSets, TLC

VARIABLES
    row,      \* the invoice's row in the database (pk = None: no row)
    inst,     \* the Invoice instance of the last save(), as it is in memory
    entries,  \* AccountingEntry rows linked to the invoice (a sequence)
    codes,    \* CustomerDiscountCode rows that still exist
    code_status,   \* CustomerDiscountCode.status of each code
    code_used_at,  \* CustomerDiscountCode.used_at of each code
    now,      \* the clock (timezone.now() / date.today())
    rounding, \* how the database rounds a value to the column's scale
    op,       \* the kind of the last operation that ran
    err,      \* its outcome: "none" or the exception raised by save()
    call,     \* the last call of a function of the discount engine:
              \* its name, its arguments and its result
    course_rows,  \* the Course rows in the database, by id
    tasks,        \* the PeriodicTask rows of django_celery_beat
    edits,        \* how many times a course was edited and saved
    invoice_numbers, \* the invoice_number column of the invoice table
    participants_inperson,  \* Course.participants_inperson, by course
    participants_online,    \* Course.participants_online, by course
    invoice_table,     \* how many invoices exist for a (customer, course)
    participant_codes, \* the status of the discount code made for a
                       \* participant of a course, by (customer, course)
    start_emails,      \* how many start emails the task send_course_start_email
                       \* has sent, by course and customer
    completion_emails, \* likewise for send_course_completion_email
    customer_rows      \* the customers in the database

vars == <<row, inst, entries, codes, code_status, code_used_at, now, rounding,
          op, err, call, course_rows, tasks, edits, invoice_numbers,
          participants_inperson, participants_online, invoice_table,
          participant_codes, start_emails, completion_emails, customer_rows>>

\* the participant lists and what hangs on them
participant_vars == <<participants_inperson, participants_online,
                      invoice_table, participant_codes, customer_rows>>

\* the emails sent by the tasks of courses/tasks.py
email_log == <<start_emails, completion_emails>>

\* what the operations on an invoice leave alone
outside_invoice == <<call, course_rows, tasks, edits, invoice_numbers,
                     participant_vars, email_log>>

None == -1

\* ---------------------------------------------------------------- bounds
MaxClock == 1
MaxDay == 2
MaxEdits == 2
MaxWeeks == 2
MaxInvoices == 4

\* ------------------------------------------------------------ money units
Unit == 10000
Cent == 100

EUR(e) == e * Unit

\* ------------------------------------------------------------ static data
\* Courses and offers are identified by small numbers; the price of a
\* course is its offer's total_amount (courses/models.py price property).
Courses == {1, 2}
Offers == {1}

CoursePrice(c) == IF c = 1 THEN 0 ELSE EUR(100)
OfferPrice(o) == EUR(50)

\* Customers: the invoice that is followed is issued to a customer of
\* Customers; each discount code belongs to one customer.
Customers == {1, 2}

\* Discount codes: 1 = 10 percent, 2 = fixed 5.00 EUR, 3 = fixed 500.00 EUR
\* Codes 1 and 2 belong to customer 1, code 3 to customer 2.
AllCodes == {1, 2, 3}
CodeCustomer(c) == IF c = 3 THEN 2 ELSE 1
CODE_STATUS_CHOICES == {"planned", "sent", "used", "expired", "cancelled"}

\* Inputs of the functions of the discount engine
Days == 0 .. MaxDay
DISCOUNT_TYPE_CHOICES == {"percentage", "fixed"}
DiscountValues(discount_type) ==
    IF discount_type = "percentage" THEN {10, 100, 150}
    ELSE {5 * Unit, 500 * Unit}
BaseAmounts == {0, 3 * Unit, 100 * Unit}
DiscountType(c) == IF c = 1 THEN "percentage" ELSE "fixed"
DiscountValue(c) == IF c = 1 THEN 10 ELSE IF c = 2 THEN EUR(5) ELSE EUR(500)

STATUS_CHOICES == {"draft", "sent", "paid", "overdue", "cancelled"}
TaxRates == {0, 19}
CallerAmounts == {None, 0, 5 * Cent, EUR(100)}

\* ------------------------------------------------------------- rounding
\* Decimal.quantize(Decimal('0.01')) under the default context
\* (ROUND_HALF_EVEN): num/den (den > 0, num >= 0) rounded to an integer.
RoundHalfEven(num, den) ==
    LET q == num \div den
        r == num % den
    IN IF 2 * r < den THEN q
       ELSE IF 2 * r > den THEN q + 1
       ELSE IF q % 2 = 0 THEN q ELSE q + 1

RoundHalfUp(num, den) ==
    LET q == num \div den
        r == num % den
    IN IF 2 * r < den THEN q ELSE q + 1

\* A DecimalField(decimal_places=2) column: the stored value has two
\* decimals.  The rounding of excess digits is done by the database layer
\* (half-even by Django's format_number, half-up by a NUMERIC column); the
\* mode is fixed for a deployment and chosen in Init.
RoundingModes == {"half_even", "half_up"}

DecimalField(v, mode) ==
    IF v = None THEN None
    ELSE IF v >= 0
         THEN Cent * (IF mode = "half_even" THEN RoundHalfEven(v, Cent)
                                            ELSE RoundHalfUp(v, Cent))
         ELSE 0 - Cent * (IF mode = "half_even" THEN RoundHalfEven(0 - v, Cent)
                                                ELSE RoundHalfUp(0 - v, Cent))

\* Python truthiness of an optional Decimal: None and 0 are falsy.
Falsy(v) == v = None \/ v = 0

\* ------------------------------------------------------- TaxCalculator
calculate_tax_amount(amount, tax_rate, is_tax_exempt) ==
    IF amount = None \/ is_tax_exempt THEN 0
    ELSE Cent * RoundHalfEven(amount * tax_rate, 100 * Cent)

calculate_total_without_tax(amount, tax_rate, is_tax_exempt) ==
    IF amount = None THEN 0 ELSE Cent * RoundHalfEven(amount, Cent)

calculate_total(amount, tax_rate, is_tax_exempt) ==
    IF amount = None THEN 0
    ELSE Cent * RoundHalfEven(
            amount + calculate_tax_amount(amount, tax_rate, is_tax_exempt), Cent)

total_amount(i) == calculate_total(i.amount, i.tax_rate, i.is_tax_exempt)

\* ------------------------------------------- CustomerDiscountCode
Min(a, b) == IF a <= b THEN a ELSE b

\* CustomerDiscountCode.calculate_discount on the fields of a code; a
\* percentage value is a number of percent, a fixed value is money.
CustomerDiscountCode_calculate_discount(discount_type, discount_value, amount) ==
    IF discount_type = "percentage"
    THEN (amount * discount_value) \div 100
    ELSE Min(discount_value, amount)

calculate_discount(code, amount) ==
    CustomerDiscountCode_calculate_discount(
        DiscountType(code), DiscountValue(code), amount)

\* customers/services.py DiscountCodeValidator._is_in_validity_period
is_in_validity_period_exclusive(valid_from, valid_until, today) ==
    valid_from < today /\ today < valid_until

is_in_validity_period(valid_from, valid_until, today) ==
    valid_from <= today /\ today <= valid_until

\* customers/services.py DiscountCodeValidator.validate (the flag of the
\* returned pair); today is timezone.now().date()
validate(status, valid_from, valid_until, today) ==
    IF status = "used" THEN FALSE
    ELSE IF status = "cancelled" THEN FALSE
    ELSE IF status = "expired" THEN FALSE
    ELSE is_in_validity_period(valid_from, valid_until, today)

\* invoices/form_services.py DiscountCodeValidator.can_apply_discount
can_apply_discount(status, valid_from, valid_until, today) ==
    /\ status \in {"planned", "sent"}
    /\ valid_from <= today /\ today <= valid_until


\* ------------------------------------------------------------ Invoice
\* Invoice(**kwargs): the model's field defaults (status 'draft',
\* discount_amount 0.00, unset original_amount and cancellation metadata).
NewInstance(customer, course, offer, amount, code, status, tax_rate, is_tax_exempt) ==
    [pk |-> None, invoice_number |-> None, customer |-> customer,
     course |-> course, offer |-> offer, discount_code |-> code,
     amount |-> amount, original_amount |-> None, discount_amount |-> 0,
     tax_rate |-> tax_rate, is_tax_exempt |-> is_tax_exempt,
     status |-> status, cancelled_at |-> None,
     cancelled_invoice_number |-> None,
     issue_date |-> None, due_date |-> None]

NoInvoice == NewInstance(None, None, None, None, None, "draft", 0, TRUE)

\* InvoiceNumberGenerator.generate: one more than the last number in use.
InvoiceNumberGenerator_generate(r) ==
    IF r.pk = None THEN 1 ELSE r.invoice_number + 1

\* InvoiceInitializer._set_amount_from_offer_or_course
set_amount_from_offer_or_course(i) ==
    IF ~Falsy(i.amount) THEN i
    ELSE IF i.course # None /\ ~Falsy(CoursePrice(i.course))
         THEN [i EXCEPT !.amount = CoursePrice(i.course)]
    ELSE IF i.offer # None /\ ~Falsy(OfferPrice(i.offer))
         THEN [i EXCEPT !.amount = OfferPrice(i.offer)]
    ELSE i

\* InvoiceDateManager.get_issue_date: "issue_date or date.today()"
get_issue_date(issue_date, today) ==
    IF issue_date = None THEN today ELSE issue_date

\* InvoiceDateManager.get_due_date: the caller's due date, or 14 days
\* after the issue date
PAYMENT_DAYS == 14

get_due_date(due_date, issue_date, today) ==
    IF due_date # None THEN due_date
    ELSE get_issue_date(issue_date, today) + PAYMENT_DAYS

\* InvoiceInitializer._set_dates
set_dates(i, today) ==
    LET issue_date == get_issue_date(i.issue_date, today)
    IN [i EXCEPT !.issue_date = issue_date,
                 !.due_date = get_due_date(i.due_date, issue_date, today)]

\* InvoiceInitializer.initialize: number, amount and dates (the course
\* details do not enter the amounts)
InvoiceInitializer_initialize(i, r, today) ==
    set_dates(
        set_amount_from_offer_or_course(
            IF i.invoice_number = None
            THEN [i EXCEPT !.invoice_number = InvoiceNumberGenerator_generate(r)]
            ELSE i),
        today)

\* The discount of a save is computed from original_amount (SCHRITT 4).
DiscountBase_amount(i) == i.amount

DiscountBase(i) == i.original_amount

\* SCHRITT 5: amount = original_amount - discount_amount
FinalAmount_compound(i, d) == i.amount - d

FinalAmount(i, d) == i.original_amount - d

\* The validation at the head of Invoice.save:
\* "if not self.course and not self.offer: raise ValueError"
HasSource_unchecked(i) == TRUE

HasSource_exactly_one(i) == (i.course = None) # (i.offer = None)

HasSource(i) == i.course # None \/ i.offer # None

\* Meta.constraints: CheckConstraint invoice_has_course_or_offer
invoice_has_course_or_offer(i) == i.course # None \/ i.offer # None

\* Invoice.save up to (not including) super().save(): the recomputation of
\* original_amount, discount_amount and amount.  err is the exception the
\* body raises ("none" when it reaches super().save()).
Invoice_compute(i, r, today) ==
    IF ~HasSource(i)
    THEN [err |-> "ValueError", inst |-> i]
    ELSE
      LET i1 == InvoiceInitializer_initialize(i, r, today)
          i2 == IF Falsy(i1.original_amount)
                THEN [i1 EXCEPT !.original_amount = i1.amount]
                ELSE i1
      IN IF i2.discount_code # None
         THEN IF DiscountBase(i2) = None
              THEN [err |-> "TypeError", inst |-> i2]
              ELSE LET d == calculate_discount(i2.discount_code, DiscountBase(i2))
                   IN [err |-> "none",
                       inst |-> [i2 EXCEPT !.discount_amount = d,
                                           !.amount = FinalAmount(i2, d)]]
         ELSE IF i2.original_amount = None
              THEN [err |-> "TypeError",
                    inst |-> [i2 EXCEPT !.discount_amount = 0]]
              ELSE [err |-> "none",
                    inst |-> [i2 EXCEPT !.discount_amount = 0,
                                        !.amount = FinalAmount(i2, 0)]]

\* InvoiceCancellationHandler._set_cancellation_metadata
set_cancellation_metadata(i, t) ==
    [i EXCEPT !.cancelled_at = IF i.cancelled_at = None THEN t ELSE @,
              !.cancelled_invoice_number =
                  IF i.cancelled_invoice_number = None THEN i.invoice_number ELSE @]

\* pre_save receiver handle_invoice_status_change
handle_invoice_status_change(i, r, t) ==
    IF i.pk = None \/ r.pk = None THEN i
    ELSE IF r.status # "cancelled" /\ i.status = "cancelled"
         THEN set_cancellation_metadata(i, t)
         ELSE i

\* The UPDATE / INSERT of super().save(): every column, or only the
\* update_fields; money columns keep two decimals.
WriteRow(i, r, update_fields, mode) ==
    IF update_fields = "status"
    THEN [r EXCEPT !.status = i.status]
    ELSE [i EXCEPT !.amount = DecimalField(i.amount, mode),
                   !.original_amount = DecimalField(i.original_amount, mode),
                   !.discount_amount = DecimalField(i.discount_amount, mode)]

\* ----------------------------------------------------- AccountingEntry
IncomeEntry(i) ==
    [entry_type |-> "income", amount |-> total_amount(i), storno |-> FALSE]

ReversalEntry(i, income_entry) ==
    [entry_type |-> "expense", amount |-> income_entry.amount, storno |-> TRUE]

IncomeOf(es) == {k \in DOMAIN es : es[k].entry_type = "income"}
ReversalOf(es) ==
    {k \in DOMAIN es : es[k].entry_type = "expense" /\ es[k].storno}

\* status 'paid': nothing when an entry exists already
PaidEntryExists_never(es) == FALSE

PaidEntryExists(es) == es # <<>>

\* status 'cancelled': nothing when the reversal exists already
ReversalExists_never(es) == FALSE

ReversalExists(es) == ReversalOf(es) # {}

\* status 'cancelled': the possible entry tables after the branch ran.
\* income_entry is .first() of the income entries of the invoice.
cancelled_branch_without_income_check(i, es) ==
    IF ReversalExists(es) THEN {es}
    ELSE {Append(es, [entry_type |-> "expense", amount |-> total_amount(i),
                      storno |-> TRUE])}

cancelled_branch(i, es) ==
    IF IncomeOf(es) = {} THEN {es}
    ELSE IF ReversalExists(es) THEN {es}
    ELSE {Append(es, ReversalEntry(i, es[k])) : k \in IncomeOf(es)}

\* post_save receiver create_accounting_entry_from_invoice: the set of
\* possible entry tables after the receiver ran for instance i.
create_accounting_entry_from_invoice(i, es) ==
    IF i.status \in {"draft", "sent", "overdue"} THEN {<<>>}
    ELSE IF i.status = "paid"
         THEN IF PaidEntryExists(es) THEN {es}
              ELSE {Append(es, IncomeEntry(i))}
    ELSE cancelled_branch(i, es)

\* post_save receiver handle_invoice_cancellation_complete, as far as the
\* discount code goes: used_at of the codes after the receiver ran.
\* _remove_participant_from_course runs first and fails on an invoice
\* without a course (the exception is caught and logged by the receiver),
\* so that _release_discount_code is not reached.  _release_discount_code
\* sets is_used, which is no field, and used_at; status is left alone.
handle_invoice_cancellation_complete(i, created, ua) ==
    IF created \/ i.status # "cancelled" \/ i.cancelled_at = None THEN ua
    ELSE IF i.course = None THEN ua
    ELSE IF i.discount_code = None THEN ua
    ELSE [ua EXCEPT ![i.discount_code] = None]

\* ------------------------------------------------- Invoice.save, whole
\* The possible outcomes [err, inst, row, entries, used_at] of
\* inst.save(...): the body of Invoice.save, the pre_save receiver, the
\* write, and the post_save receivers of the accounting app and of the
\* invoices app.  A row that breaks the check constraint is refused by the
\* database.
Invoice_save(i, r, es, ua, t, update_fields, mode) ==
    LET c == Invoice_compute(i, r, t)
    IN IF c.err # "none"
       THEN {[err |-> c.err, inst |-> c.inst, row |-> r, entries |-> es,
              used_at |-> ua]}
       ELSE IF ~invoice_has_course_or_offer(c.inst)
       THEN {[err |-> "IntegrityError", inst |-> c.inst, row |-> r,
              entries |-> es, used_at |-> ua]}
       ELSE
         LET i1 == handle_invoice_status_change(c.inst, r, t)
             i2 == [i1 EXCEPT !.pk = 1]
         IN {[err |-> "none", inst |-> i2,
              row |-> WriteRow(i2, r, update_fields, mode),
              entries |-> es2,
              used_at |-> handle_invoice_cancellation_complete(
                              i2, r.pk = None, ua)] :
               es2 \in create_accounting_entry_from_invoice(i2, es)}

Apply(name, o) ==
    /\ op' = name
    /\ inst' = o.inst
    /\ row' = o.row
    /\ entries' = o.entries
    /\ err' = o.err
    /\ code_used_at' = o.used_at
    /\ UNCHANGED <<codes, code_status, now, rounding>>
    /\ UNCHANGED outside_invoice

\* ------------------------------------------------------------- Course
\* Course rows and their scheduled notification tasks (courses/models.py,
\* courses/services.py CeleryTaskManager, courses/tasks.py).
CourseIds == {1}

\* the ids of all courses; the second course has a later id
AllCourseIds == CourseIds \cup {10}

\* what a course can be made of: the title of its offer, its dates (days
\* of one year, counted from a Monday), its times and its location
\* (None: "Online")
Titles == {"Pilates"}
StartDates == {3, 4}
EndDates == {None, 5}
StartTimes == {9}
EndTimes == {10}
Locations == {None, 1}

NoCourse == [state |-> "none"]
DeletedCourse == [state |-> "deleted"]

\* Course(**kwargs) with the field defaults
NewCourse(title, start_date, end_date, start_time, end_time, location, weekday) ==
    [state |-> "stored", title |-> title, start_date |-> start_date,
     end_date |-> end_date, start_time |-> start_time, end_time |-> end_time,
     location |-> location, weekday |-> weekday, is_active |-> TRUE,
     start_email_sent |-> FALSE, completion_email_sent |-> FALSE]

\* date.weekday(): 0 is Monday
weekday_of(d) == d % 7

\* strftime('%d.%m'): day and month of a date, without the year
DaysPerYear == 365
DayMonth(d) == IF d = None THEN None ELSE d % DaysPerYear

EMAIL_LEAD_TIME_DAYS == 2

\* CeleryTaskManager.get_task_name: prefix, title, dates, times, location.
\* An unset date or time is printed as "?" (here None), no location as
\* "Online" (here 0).
get_task_name(course, task_type) ==
    <<IF task_type = "start" THEN "Kursstart Email" ELSE "Kurs-Abschluss Email",
      course.title, DayMonth(course.start_date), DayMonth(course.end_date),
      course.start_time, course.end_time,
      IF course.location = None THEN 0 ELSE course.location>>

\* calculate_email_send_datetime: two days before the start at 08:00, or in
\* ten minutes when that is past.  The clock counts days, read after 08:00.
calculate_email_send_datetime(start_date, t) ==
    IF start_date - EMAIL_LEAD_TIME_DAYS <= t
    THEN <<t, "now + 10 min">>
    ELSE <<start_date - EMAIL_LEAD_TIME_DAYS, "08:00">>

\* calculate_completion_email_send_datetime: end date at the end time
\* (18:00 without one), or in ten minutes when that is past.  The clock is
\* read before the end time.
calculate_completion_email_send_datetime(end_date, end_time, t) ==
    IF end_date < t
    THEN <<t, "now + 10 min">>
    ELSE <<end_date, IF end_time = None THEN 18 ELSE end_time>>

TaskNamed(ts, name) == {x \in ts : x.name = name}

\* _create_new_task / _update_existing_task
create_or_update_task(ts, name, course_id, clocked, task_function) ==
    IF TaskNamed(ts, name) # {}
    THEN {IF x.name = name THEN [x EXCEPT !.clocked = clocked] ELSE x :
             x \in ts}
    ELSE ts \cup {[name |-> name, task |-> task_function, args |-> course_id,
                   clocked |-> clocked]}

\* _delete_task_if_exists and each half of delete_course_task
delete_task_if_exists(ts, course, task_type) ==
    ts \ TaskNamed(ts, get_task_name(course, task_type))

manage_course_start_email_task(ts, course, course_id, t) ==
    IF course.start_date = None THEN ts
    ELSE IF course.start_email_sent
         THEN delete_task_if_exists(ts, course, "start")
         ELSE create_or_update_task(
                  ts, get_task_name(course, "start"), course_id,
                  calculate_email_send_datetime(course.start_date, t),
                  "courses.tasks.send_course_start_email")

manage_course_completion_email_task(ts, course, course_id, t) ==
    IF course.end_date = None THEN ts
    ELSE IF course.completion_email_sent
         THEN delete_task_if_exists(ts, course, "completion")
         ELSE create_or_update_task(
                  ts, get_task_name(course, "completion"), course_id,
                  calculate_completion_email_send_datetime(
                      course.end_date, course.end_time, t),
                  "courses.tasks.send_course_completion_email")

delete_course_task(ts, course) ==
    delete_task_if_exists(delete_task_if_exists(ts, course, "start"),
                          course, "completion")

\* The fields written by super().save(update_fields=...)
WriteCourse(course, stored, update_fields) ==
    IF update_fields = "all" THEN course
    ELSE IF update_fields = "start_email_sent"
         THEN [stored EXCEPT !.start_email_sent = course.start_email_sent]
    ELSE [stored EXCEPT !.completion_email_sent = course.completion_email_sent]

\* The head of Course.save: "if self.start_date: self.weekday = ..."
set_weekday_as_supplied(course) == course

set_weekday(course) ==
    IF course.start_date # None
    THEN [course EXCEPT !.weekday = weekday_of(course.start_date)]
    ELSE course

\* Course.save: the weekday, the write, then the two tasks.  The outcome
\* is the stored row and the task table.
Course_save(course, course_id, stored, ts, t, update_fields) ==
    LET c1 == set_weekday(course)
        ts1 == IF c1.start_date # None
               THEN manage_course_start_email_task(ts, c1, course_id, t)
               ELSE ts
        ts2 == IF c1.end_date # None
               THEN manage_course_completion_email_task(ts1, c1, course_id, t)
               ELSE ts1
    IN [row |-> WriteCourse(c1, stored, update_fields), tasks |-> ts2]

\* ------------------------------------------------------------ actions
InitInvoices ==
    /\ row = NoInvoice
    /\ inst = NoInvoice
    /\ entries = <<>>
    /\ codes = AllCodes
    /\ code_status = [c \in AllCodes |-> "sent"]
    /\ code_used_at = [c \in AllCodes |-> None]
    /\ now = 0
    /\ rounding \in RoundingModes
    /\ op = "init"
    /\ err = "none"
    /\ call = [fn |-> "none"]
    /\ edits = 0
    /\ invoice_numbers = {}
    /\ participants_inperson = [c \in AllCourseIds |-> {}]
    /\ participants_online = [c \in AllCourseIds |-> {}]
    /\ invoice_table = [pair \in Customers \X AllCourseIds |-> 0]
    /\ participant_codes = [pair \in Customers \X AllCourseIds |-> "none"]
    /\ start_emails = [c \in AllCourseIds |-> [p \in Customers |-> 0]]
    /\ completion_emails = [c \in AllCourseIds |-> [p \in Customers |-> 0]]

\* the empty database
Init ==
    /\ InitInvoices
    /\ customer_rows = Customers
    /\ course_rows = [c \in AllCourseIds |-> NoCourse]
    /\ tasks = {}

\* Invoice(...).save() / Invoice.objects.create(...): the first save
CreateInvoice ==
    /\ row.pk = None
    /\ \E course \in Courses \cup {None}, offer \in Offers \cup {None},
          amount \in CallerAmounts, code \in codes \cup {None},
          status \in STATUS_CHOICES, tax \in {<<0, TRUE>>, <<19, FALSE>>} :
         \E o \in Invoice_save(
                    NewInstance(1, course, offer, amount, code, status,
                                tax[1], tax[2]),
                    row, entries, code_used_at, now, "all", rounding) :
            Apply("create", o)

\* InvoiceCreator.create_for_participant: an invoice for a course
\* participant, unless one exists or the course has no price;
\* Invoice.objects.create(customer, course, amount=course.price) with the
\* field defaults (no discount code, status draft, tax exempt)
InvoiceCreator_create_for_participant ==
    /\ row.pk = None
    /\ \E course \in Courses :
         /\ ~Falsy(CoursePrice(course))
         /\ \E o \in Invoice_save(
                      NewInstance(1, course, None, CoursePrice(course), None,
                                  "draft", 0, TRUE),
                      row, entries, code_used_at, now, "all", rounding) :
              Apply("create", o)

\* The operations below work on the invoice as the handlers of
\* admin_services.py do: Invoice.objects.get(pk=...), assignments, save().

\* invoice.save() again, nothing changed by the caller
SaveAgain ==
    /\ row.pk # None
    /\ \E o \in Invoice_save(row, row, entries, code_used_at, now, "all", rounding) :
         Apply("save", o)

\* invoice.amount = a; invoice.save()
SetAmountAndSave ==
    /\ row.pk # None
    /\ \E a \in CallerAmounts \ {None, row.amount} :
         \E o \in Invoice_save([row EXCEPT !.amount = a],
                               row, entries, code_used_at, now, "all", rounding) :
         Apply("set_amount", o)

\* invoice.discount_code = c; invoice.save()  (attach, replace, remove)
SetDiscountCodeAndSave ==
    /\ row.pk # None
    /\ \E c \in (codes \cup {None}) \ {row.discount_code} :
         \E o \in Invoice_save([row EXCEPT !.discount_code = c],
                               row, entries, code_used_at, now, "all", rounding) :
         Apply("set_code", o)

\* invoice.status = s; invoice.save()  (change form, programmatic)
SetStatusAndSave ==
    /\ row.pk # None
    /\ \E s \in STATUS_CHOICES \ {row.status} :
         \E o \in Invoice_save([row EXCEPT !.status = s],
                               row, entries, code_used_at, now, "all", rounding) :
         Apply("set_status", o)

\* InvoiceActionHandler.mark_as_sent
mark_as_sent ==
    /\ row.pk # None
    /\ \E o \in Invoice_save([row EXCEPT !.status = "sent"],
                             row, entries, code_used_at, now, "all", rounding) :
         Apply("set_status", o)

\* InvoiceActionHandler.mark_as_paid
mark_as_paid ==
    /\ row.pk # None
    /\ \E o \in Invoice_save([row EXCEPT !.status = "paid"],
                             row, entries, code_used_at, now, "all", rounding) :
         Apply("set_status", o)

\* InvoiceActionHandler.stornieren: refuses an invoice that is cancelled
stornieren ==
    /\ row.pk # None
    /\ row.status # "cancelled"
    /\ \E o \in Invoice_save([row EXCEPT !.status = "cancelled"],
                             row, entries, code_used_at, now, "all", rounding) :
         Apply("set_status", o)

\* InvoiceAdmin.send_invoice_email_action, the email having been sent
send_invoice_email_action ==
    /\ row.pk # None
    /\ \E o \in Invoice_save([row EXCEPT !.status = "sent"],
                             row, entries, code_used_at, now, "status", rounding) :
         Apply("set_status", o)

\* InvoiceAdmin.bulk_mark_as_sent / bulk_send_invoice_emails:
\* queryset.update(status="sent"), no save() and no signal
bulk_mark_as_sent ==
    /\ row.pk # None
    /\ row.status # "sent"
    /\ row' = [row EXCEPT !.status = "sent"]
    /\ op' = "update"
    /\ err' = "none"
    /\ UNCHANGED <<inst, entries, codes, code_status, code_used_at, now,
                   rounding>>
    /\ UNCHANGED outside_invoice

\* InvoiceAdmin.bulk_mark_as_paid: saves each invoice that is not paid
bulk_mark_as_paid ==
    /\ row.pk # None
    /\ row.status # "paid"
    /\ \E o \in Invoice_save([row EXCEPT !.status = "paid"],
                             row, entries, code_used_at, now, "all", rounding) :
         Apply("set_status", o)

\* customers/tasks.py delete_old_discount_codes: the codes older than the
\* cutoff (here: all of them) are deleted and Invoice.discount_code
\* (on_delete=SET_NULL) is nulled in the row
delete_old_discount_codes ==
    /\ codes # {}
    /\ codes' = {}
    /\ row' = [row EXCEPT !.discount_code = None]
    /\ op' = "delete_codes"
    /\ err' = "none"
    /\ UNCHANGED <<inst, entries, code_status, code_used_at, now, rounding>>
    /\ UNCHANGED outside_invoice

\* InvoiceAdminForm on the change page of the invoice, then
\* ModelAdmin.save_model (obj.save()).  The discount_code field offers the
\* codes of the customer of the instance; clean() refuses a code that is not
\* of the customer chosen in the form.
InvoiceAdminForm_save ==
    /\ row.pk # None
    /\ \E customer \in Customers,
          c \in {k \in codes : CodeCustomer(k) = row.customer} \cup {None} :
         IF c # None /\ CodeCustomer(c) # customer
         THEN /\ op' = "admin_form"
              /\ err' = "ValidationError"
              /\ UNCHANGED <<row, inst, entries, codes, code_status,
                             code_used_at, now, rounding>>
              /\ UNCHANGED outside_invoice
         ELSE \E o \in Invoice_save(
                          [row EXCEPT !.customer = customer,
                                      !.discount_code = c],
                          row, entries, code_used_at, now, "all", rounding) :
                 Apply("admin_form", o)

\* CustomerDiscountCodeAdmin.mark_as_used on a queryset of one code:
\* use_code() on the code unless it is used already
mark_as_used ==
    \E c \in codes :
       /\ code_status[c] # "used"
       /\ code_status' = [code_status EXCEPT ![c] = "used"]
       /\ code_used_at' = [code_used_at EXCEPT ![c] = now]
       /\ op' = "use_code"
       /\ err' = "none"
       /\ UNCHANGED <<row, inst, entries, codes, now, rounding>>
       /\ UNCHANGED outside_invoice

Tick ==
    /\ now < MaxClock
    /\ now' = now + 1
    /\ UNCHANGED <<row, inst, entries, codes, code_status, code_used_at,
                   rounding, op, err>>
    /\ UNCHANGED outside_invoice

Next ==
    \/ CreateInvoice
    \/ SaveAgain
    \/ SetAmountAndSave
    \/ SetDiscountCodeAndSave
    \/ SetStatusAndSave
    \/ mark_as_sent
    \/ mark_as_paid
    \/ stornieren
    \/ send_invoice_email_action
    \/ bulk_mark_as_sent
    \/ bulk_mark_as_paid
    \/ delete_old_discount_codes

\* The amounts and the accounting entries of an invoice do not depend on
\* the clock: Spec follows the invoice at one instant.
Spec == Init /\ [][Next]_vars

\* The invoice together with the administration of the discount codes
NextCodes ==
    \/ InvoiceCreator_create_for_participant
    \/ SaveAgain
    \/ SetDiscountCodeAndSave
    \/ InvoiceAdminForm_save
    \/ stornieren
    \/ mark_as_used
    \/ delete_old_discount_codes
    \/ Tick

SpecCodes == Init /\ [][NextCodes]_vars

\* ------------------------------------------------- courses, operations
\* what the operations on a course leave alone
outside_courses == <<row, inst, entries, codes, code_status, code_used_at,
                     rounding, call, invoice_numbers, participant_vars>>

ApplyCourse(name, c, o) ==
    /\ op' = name
    /\ err' = "none"
    /\ course_rows' = [course_rows EXCEPT ![c] = o.row]
    /\ tasks' = o.tasks
    /\ UNCHANGED <<now>>
    /\ UNCHANGED outside_courses

\* Course(...).save(): a new course
Course_create ==
    \E c \in CourseIds :
       /\ course_rows[c] = NoCourse
       /\ \E title \in Titles, start_date \in StartDates,
             end_date \in EndDates, start_time \in StartTimes,
             end_time \in EndTimes, location \in Locations,
             weekday \in {None, 0} :
            ApplyCourse("course_create", c,
                Course_save(NewCourse(title, start_date, end_date, start_time,
                                      end_time, location, weekday),
                            c, NoCourse, tasks, now, "all"))
       /\ UNCHANGED edits
       /\ UNCHANGED email_log

\* the change form of a course: title (offer), dates, times or location
\* edited, then course.save()
Course_edit ==
    \E c \in CourseIds :
       /\ course_rows[c].state = "stored"
       /\ edits < MaxEdits
       /\ edits' = edits + 1
       /\ UNCHANGED email_log
       /\ \E title \in Titles, start_date \in StartDates,
             end_date \in EndDates, start_time \in StartTimes,
             end_time \in EndTimes, location \in Locations :
            LET edited == [course_rows[c] EXCEPT
                             !.title = title, !.start_date = start_date,
                             !.end_date = end_date, !.start_time = start_time,
                             !.end_time = end_time, !.location = location]
            IN /\ edited # course_rows[c]
               /\ ApplyCourse("course_edit", c,
                      Course_save(edited, c, course_rows[c], tasks, now, "all"))

\* Course.delete: delete_course_task, then the row
Course_delete ==
    \E c \in CourseIds :
       /\ course_rows[c].state = "stored"
       /\ ApplyCourse("course_delete", c,
              [row |-> DeletedCourse,
               tasks |-> delete_course_task(tasks, course_rows[c])])
       /\ UNCHANGED edits
       /\ UNCHANGED email_log

\* Course.mark_start_email_sent (admin send_start_email_action, the email
\* having been sent): save(update_fields=[start_email_sent, ..._at])
mark_start_email_sent ==
    \E c \in CourseIds :
       /\ course_rows[c].state = "stored"
       /\ ApplyCourse("mark_start_email_sent", c,
              Course_save([course_rows[c] EXCEPT !.start_email_sent = TRUE],
                          c, course_rows[c], tasks, now, "start_email_sent"))
       /\ UNCHANGED edits
       /\ UNCHANGED email_log

\* Course.mark_completion_email_sent (admin send_end_email_action, the
\* email having been sent): completion_email_sent and is_active are set on
\* the instance, save(update_fields=[completion_email_sent, ..._at])
mark_completion_email_sent ==
    \E c \in CourseIds :
       /\ course_rows[c].state = "stored"
       /\ ApplyCourse("mark_completion_email_sent", c,
              Course_save([course_rows[c] EXCEPT
                              !.completion_email_sent = TRUE,
                              !.is_active = FALSE],
                          c, course_rows[c], tasks, now,
                          "completion_email_sent"))
       /\ UNCHANGED edits
       /\ UNCHANGED email_log

NextCourse ==
    \/ Course_create
    \/ Course_edit
    \/ Course_delete
    \/ mark_start_email_sent
    \/ mark_completion_email_sent
    \/ Tick

\* The courses are followed from the initial state of one deployment.
InitCourse == Init /\ rounding = "half_even"

SpecCourse == InitCourse /\ [][NextCourse]_vars

\* ------------------------------------------------ the invoice's dates
\* The dates a caller can give to an invoice
CallerDates == Days

\* Invoice(customer, course, issue_date=..., due_date=...).save(): a new
\* invoice for a course, either date given or left unset
CreateInvoiceWithDates ==
    /\ row.pk = None
    /\ \E course \in Courses, issue_date \in CallerDates \cup {None},
          due_date \in CallerDates \cup {None} :
         \E o \in Invoice_save(
                    [NewInstance(1, course, None, None, None, "draft", 0, TRUE)
                        EXCEPT !.issue_date = issue_date,
                               !.due_date = due_date],
                    row, entries, code_used_at, now, "all", rounding) :
            Apply("create", o)

\* The change form of the invoice, fieldset "Termine": issue_date and
\* due_date are required fields, both are written as entered
SetDatesAndSave ==
    /\ row.pk # None
    /\ \E issue_date \in CallerDates, due_date \in CallerDates :
         /\ <<issue_date, due_date>> # <<row.issue_date, row.due_date>>
         /\ \E o \in Invoice_save(
                      [row EXCEPT !.issue_date = issue_date,
                                  !.due_date = due_date],
                      row, entries, code_used_at, now, "all", rounding) :
              Apply("set_dates", o)

NextDates ==
    \/ CreateInvoiceWithDates
    \/ InvoiceCreator_create_for_participant
    \/ SetDatesAndSave
    \/ SaveAgain
    \/ stornieren
    \/ Tick

SpecDates == InitCourse /\ [][NextDates]_vars

\* ------------------------------------------ the discount engine, called
\* what the calls of the discount engine leave alone
invoice_vars == <<row, inst, entries, codes, code_status, code_used_at, now,
                  rounding, op, err, course_rows, tasks, edits,
                  invoice_numbers, participant_vars, email_log>>

\* code.is_valid(): DiscountCodeValidator(code).validate()
ValidateCode ==
    /\ \E status \in CODE_STATUS_CHOICES, valid_from \in Days,
          valid_until \in Days, today \in Days :
         call' = [fn |-> "validate", status |-> status,
                  valid_from |-> valid_from, valid_until |-> valid_until,
                  today |-> today,
                  result |-> validate(status, valid_from, valid_until, today)]
    /\ UNCHANGED invoice_vars

\* DiscountCodeValidator.can_apply_discount(code)
CanApplyDiscount ==
    /\ \E status \in CODE_STATUS_CHOICES, valid_from \in Days,
          valid_until \in Days, today \in Days :
         call' = [fn |-> "can_apply_discount", status |-> status,
                  valid_from |-> valid_from, valid_until |-> valid_until,
                  today |-> today,
                  result |-> can_apply_discount(status, valid_from,
                                                valid_until, today)]
    /\ UNCHANGED invoice_vars

\* code.calculate_discount(amount)
CalculateDiscount ==
    /\ \E discount_type \in DISCOUNT_TYPE_CHOICES, amount \in BaseAmounts :
         \E discount_value \in DiscountValues(discount_type) :
           call' = [fn |-> "calculate_discount",
                    discount_type |-> discount_type,
                    discount_value |-> discount_value, amount |-> amount,
                    result |-> CustomerDiscountCode_calculate_discount(
                                   discount_type, discount_value, amount)]
    /\ UNCHANGED invoice_vars

NextDiscount ==
    \/ ValidateCode
    \/ CanApplyDiscount
    \/ CalculateDiscount

SpecDiscount == Init /\ [][NextDiscount]_vars

\* ------------------------------------------------ the course schedule
\* courses/services.py CourseHolidayCalculator, CourseScheduleCalculator.
\* A date is a day number; the years have DaysPerYear days.  The holiday
\* calendar (workalendar's Bavaria) is an input: a set of dates, of which
\* cal.holidays(year) returns those of the year.
year_of(d) == d \div DaysPerYear

FirstScheduleDay == 357
ScheduleDates == FirstScheduleDay .. (FirstScheduleDay + 7 * MaxWeeks + 1)
HolidayCandidates == {358, 364, 365, 371}

cal_holidays(cal, year) == {h \in cal : year_of(h) = year}

\* CourseHolidayCalculator.get_holidays_in_range: the holidays of every
\* year from start_date.year to end_date.year that lie in the range (the
\* caller makes a set of the sorted list)
get_holidays_in_range(start_date, end_date, cal) ==
    IF start_date = None \/ end_date = None THEN {}
    ELSE UNION {{h \in cal_holidays(cal, year) :
                    start_date <= h /\ h <= end_date} :
                year \in year_of(start_date) .. year_of(end_date)}

\* the while loop of get_course_dates
RECURSIVE course_dates_from(_, _, _)
course_dates_from(current_date, end_date, holidays) ==
    IF current_date <= end_date
    THEN (IF current_date \notin holidays THEN <<current_date>> ELSE <<>>)
           \o course_dates_from(current_date + 7, end_date, holidays)
    ELSE <<>>

\* CourseScheduleCalculator.get_course_dates (the weekday argument is not
\* used by the code)
get_course_dates_unfiltered(start_date, end_date, cal) ==
    course_dates_from(start_date, end_date, {})

get_course_dates(start_date, end_date, cal) ==
    course_dates_from(start_date, end_date,
                      get_holidays_in_range(start_date, end_date, cal))

\* calc.get_course_dates(start_date, end_date, weekday); comparing a date
\* with None raises TypeError.  The function keeps no state: one call is
\* followed.
GetCourseDates ==
    /\ call.fn = "none"
    /\ \E start_date \in ScheduleDates \cup {None},
          end_date \in ScheduleDates \cup {None},
          cal \in SUBSET HolidayCandidates :
         call' = [fn |-> "get_course_dates", start_date |-> start_date,
                  end_date |-> end_date, cal |-> cal,
                  holidays |-> get_holidays_in_range(start_date, end_date, cal),
                  err |-> IF start_date = None \/ end_date = None
                          THEN "TypeError" ELSE "none",
                  result |-> IF start_date = None \/ end_date = None
                             THEN <<>>
                             ELSE get_course_dates(start_date, end_date, cal)]
    /\ UNCHANGED invoice_vars

NextSchedule ==
    \/ GetCourseDates

SpecSchedule == InitCourse /\ [][NextSchedule]_vars

\* --------------------------------------------- the invoice numbers
\* invoices/models.py InvoiceNumberGenerator.  An invoice number is the
\* string "YYYY-NNN"; here the year and the string after the dash, a
\* sequence of decimal digits.
ThisYear == 2026
LastYear == 2025

\* str(n) for n >= 0
RECURSIVE Digits(_)
Digits(n) == IF n < 10 THEN <<n>> ELSE Append(Digits(n \div 10), n % 10)

\* f"{n:03d}": at least three digits, padded with zeros
Format03d(n) ==
    LET d == Digits(n)
    IN IF Len(d) >= 3 THEN d
       ELSE [k \in 1 .. (3 - Len(d)) |-> 0] \o d

\* int(s) of a string of digits
RECURSIVE ParseInt(_)
ParseInt(s) ==
    IF Len(s) = 0 THEN 0
    ELSE 10 * ParseInt(SubSeq(s, 1, Len(s) - 1)) + s[Len(s)]

\* the order of the invoice_number column (a CharField): strings are
\* compared character by character, a proper prefix comes first
StringLess(s, t) ==
    \E k \in 1 .. (Min(Len(s), Len(t)) + 1) :
       /\ \A j \in 1 .. (k - 1) : s[j] = t[j]
       /\ IF k > Len(s) THEN k <= Len(t)
          ELSE k <= Len(t) /\ s[k] < t[k]

\* filter(invoice_number__startswith=f"{year}-")
NumbersOfYear(table, year) == {x \in table : x.year = year}

\* .order_by('-invoice_number').first() of a table that is not empty
LastInvoiceNumber(table) ==
    CHOOSE x \in table : \A y \in table \ {x} : StringLess(y.seq, x.seq)

\* InvoiceNumberGenerator.generate with datetime.now().year = year
generate(table, year) ==
    LET of_year == NumbersOfYear(table, year)
        new_number == IF of_year = {} THEN 1
                      ELSE ParseInt(LastInvoiceNumber(of_year).seq) + 1
    IN [year |-> year, seq |-> Format03d(new_number)]

\* The numbers a caller hands to Invoice(invoice_number=...), which
\* InvoiceInitializer._set_invoice_number keeps
SuppliedNumbers ==
    {[year |-> LastYear, seq |-> Format03d(5)],
     [year |-> ThisYear, seq |-> Format03d(9)],
     [year |-> ThisYear, seq |-> Format03d(998)],
     [year |-> ThisYear, seq |-> Format03d(999)]}

\* what the operations on the invoice table leave alone
outside_numbers == <<row, inst, entries, codes, code_status, code_used_at,
                     now, rounding, course_rows, tasks, edits,
                     participant_vars, email_log>>

\* The INSERT of an invoice with number n: invoice_number is unique
InsertNumber(name, n) ==
    /\ op' = name
    /\ IF n \in invoice_numbers
       THEN err' = "IntegrityError" /\ UNCHANGED invoice_numbers
       ELSE err' = "none" /\ invoice_numbers' = invoice_numbers \cup {n}
    /\ UNCHANGED outside_numbers

\* Invoice(...).save() of a new invoice without a number: the initializer
\* calls generate(), then the row is inserted
CreateWithGeneratedNumber ==
    /\ Cardinality(invoice_numbers) < MaxInvoices
    /\ LET n == generate(invoice_numbers, ThisYear)
       IN /\ call' = [fn |-> "generate", table |-> invoice_numbers,
                      year |-> ThisYear, result |-> n]
          /\ InsertNumber("create_generated", n)

\* Invoice(invoice_number=n, ...).save(): the caller's number is kept
CreateWithSuppliedNumber ==
    /\ Cardinality(invoice_numbers) < MaxInvoices
    /\ \E n \in SuppliedNumbers :
         /\ InsertNumber("create_supplied", n)
         /\ UNCHANGED call

NextNumbers ==
    \/ CreateWithGeneratedNumber
    \/ CreateWithSuppliedNumber

SpecNumbers == InitCourse /\ [][NextNumbers]_vars

\* ------------------------------------------ participants of a course
\* courses/models.py participants_inperson / participants_online and the
\* m2m_changed receivers of invoices/signals.py and customers/signals.py;
\* the tasks of courses/tasks.py that write to the participants.

\* InvoiceCreator.create_for_participant on the table of invoices: nothing
\* when an invoice of the customer for the course exists or the course has
\* no price, else Invoice.objects.create(customer, course, ...)
create_for_participant_unchecked(table, customer, course) ==
    IF Falsy(CoursePrice(course)) THEN table
    ELSE [table EXCEPT ![<<customer, course>>] = @ + 1]

create_for_participant(table, customer, course) ==
    IF table[<<customer, course>>] > 0 THEN table
    ELSE IF Falsy(CoursePrice(course)) THEN table
    ELSE [table EXCEPT ![<<customer, course>>] = @ + 1]

\* handle_inperson_participants_changed / handle_online_participants_changed
\* for action post_add: one call of the creator for each customer added
RECURSIVE handle_participants_changed(_, _, _)
handle_participants_changed(table, course, customer_ids) ==
    IF customer_ids = {} THEN table
    ELSE LET customer == CHOOSE k \in customer_ids : TRUE
         IN handle_participants_changed(
                create_for_participant(table, customer, course),
                course, customer_ids \ {customer})

\* The description DiscountCodeFactory gives to the code of a participant
\* of course k ends in "(Kurs k)".  description__icontains=f"Kurs {id}"
\* holds when the digits of id are the first digits of k.
description_icontains(k, course_id) ==
    LET d == Digits(k)
        q == Digits(course_id)
    IN Len(q) <= Len(d) /\ SubSeq(d, 1, Len(q)) = q

\* DiscountCodeRepository.find_existing_for_course: the codes of the
\* customer that the filter finds, named by the course they were made for
find_existing_for_course(pc, customer, course) ==
    {k \in AllCourseIds : /\ pc[<<customer, k>>] # "none"
                          /\ description_icontains(k, course)}

\* DiscountCodeRepository.find_active_for_course
find_active_for_course(pc, customer, course) ==
    {k \in AllCourseIds : /\ pc[<<customer, k>>] \in {"planned", "sent"}
                          /\ description_icontains(k, course)}

\* ParticipantDiscountCodeHandler.handle_participant_added: a code with the
\* default status for each customer without an existing one
handle_participant_added(pc, course, customer_ids) ==
    [pair \in DOMAIN pc |->
        IF /\ pair[2] = course /\ pair[1] \in customer_ids
           /\ find_existing_for_course(pc, pair[1], course) = {}
        THEN "planned" ELSE pc[pair]]

\* ParticipantDiscountCodeHandler.handle_participant_removed with
\* DiscountCodeRepository.cancel_codes
handle_participant_removed(pc, course, customer_ids) ==
    [pair \in DOMAIN pc |->
        IF /\ pair[1] \in customer_ids
           /\ pair[2] \in find_active_for_course(pc, pair[1], course)
        THEN "cancelled" ELSE pc[pair]]

\* what the operations on the participants leave alone
outside_participants == <<row, inst, entries, codes, code_status,
                          code_used_at, now, rounding, call, course_rows,
                          tasks, edits, invoice_numbers, email_log,
                          customer_rows>>

ParticipantLists == {"inperson", "online"}

\* course.participants_inperson.add(*customers) or
\* course.participants_online.add(*customers) (the change form of the
\* course): post_add is sent with the customers that were not on the list
participants_add ==
    /\ \E course \in AllCourseIds, list \in ParticipantLists,
          customers \in SUBSET customer_rows :
         LET on_list == IF list = "inperson" THEN participants_inperson[course]
                        ELSE participants_online[course]
             pk_set == customers \ on_list
         IN /\ course_rows[course].state = "stored"
            /\ pk_set # {}
            /\ IF list = "inperson"
               THEN /\ participants_inperson' =
                          [participants_inperson EXCEPT ![course] = @ \cup pk_set]
                    /\ UNCHANGED participants_online
               ELSE /\ participants_online' =
                          [participants_online EXCEPT ![course] = @ \cup pk_set]
                    /\ UNCHANGED participants_inperson
            /\ invoice_table' =
                  handle_participants_changed(invoice_table, course, pk_set)
            /\ participant_codes' =
                  handle_participant_added(participant_codes, course, pk_set)
    /\ op' = "participants_add"
    /\ err' = "none"
    /\ UNCHANGED outside_participants

\* course.participants_*.remove(*customers): post_remove, which the
\* receivers of invoices/signals.py ignore
participants_remove ==
    /\ \E course \in AllCourseIds, list \in ParticipantLists,
          pk_set \in SUBSET customer_rows :
         LET on_list == IF list = "inperson" THEN participants_inperson[course]
                        ELSE participants_online[course]
         IN /\ course_rows[course].state = "stored"
            /\ pk_set # {} /\ pk_set \subseteq on_list
            /\ IF list = "inperson"
               THEN /\ participants_inperson' =
                          [participants_inperson EXCEPT ![course] = @ \ pk_set]
                    /\ UNCHANGED participants_online
               ELSE /\ participants_online' =
                          [participants_online EXCEPT ![course] = @ \ pk_set]
                    /\ UNCHANGED participants_inperson
            /\ participant_codes' =
                  handle_participant_removed(participant_codes, course, pk_set)
    /\ op' = "participants_remove"
    /\ err' = "none"
    /\ UNCHANGED invoice_table
    /\ UNCHANGED outside_participants

\* InvoiceCancellationHandler._remove_participant_from_course, run by the
\* post_save receiver for a save of a cancelled invoice of the customer for
\* the course: the customer is taken off each list he is on
remove_participant_from_course ==
    /\ \E customer \in customer_rows, course \in AllCourseIds :
         /\ invoice_table[<<customer, course>>] > 0
         /\ participants_inperson' =
               [participants_inperson EXCEPT ![course] = @ \ {customer}]
         /\ participants_online' =
               [participants_online EXCEPT ![course] = @ \ {customer}]
         /\ participant_codes' =
               IF \/ customer \in participants_inperson[course]
                  \/ customer \in participants_online[course]
               THEN handle_participant_removed(participant_codes, course,
                                               {customer})
               ELSE participant_codes
    /\ op' = "cancel_invoice"
    /\ err' = "none"
    /\ UNCHANGED invoice_table
    /\ UNCHANGED outside_participants

\* The change form of a discount code (CustomerDiscountCodeAdminForm):
\* the status is set to any of the choices
set_code_status ==
    /\ \E pair \in DOMAIN participant_codes, status \in CODE_STATUS_CHOICES :
         /\ participant_codes[pair] \notin {"none", status}
         /\ participant_codes' = [participant_codes EXCEPT ![pair] = status]
    /\ op' = "set_code_status"
    /\ err' = "none"
    /\ UNCHANGED <<participants_inperson, participants_online, invoice_table>>
    /\ UNCHANGED outside_participants

\* an invoice of a participant is deleted (admin)
delete_participant_invoice ==
    /\ \E pair \in DOMAIN invoice_table :
         /\ invoice_table[pair] > 0
         /\ invoice_table' = [invoice_table EXCEPT ![pair] = @ - 1]
    /\ op' = "delete_invoice"
    /\ err' = "none"
    /\ UNCHANGED <<participants_inperson, participants_online,
                   participant_codes>>
    /\ UNCHANGED outside_participants

\* BaseEmailService.send_bulk_emails for list(participants_inperson) +
\* list(participants_online): one email to each entry of the two lists;
\* those of delivered_* are sent, the others fail.  The emails each
\* customer got are added to the log.
send_bulk_emails(log, delivered_inperson, delivered_online) ==
    [p \in DOMAIN log |->
        log[p] + (IF p \in delivered_inperson THEN 1 ELSE 0)
               + (IF p \in delivered_online THEN 1 ELSE 0)]

\* courses.tasks.send_course_start_email(course_id): nothing when the
\* course does not exist, when start_email_sent is set or when there is no
\* participant; else the emails are sent and, when one was sent, the flag
\* is set and the course saved
send_course_start_email ==
    \E c \in AllCourseIds :
       IF \/ course_rows[c].state # "stored"
          \/ course_rows[c].start_email_sent
          \/ participants_inperson[c] \cup participants_online[c] = {}
       THEN /\ ApplyCourse("send_course_start_email", c,
                           [row |-> course_rows[c], tasks |-> tasks])
            /\ UNCHANGED <<edits, email_log>>
       ELSE \E delivered_inperson \in SUBSET participants_inperson[c],
               delivered_online \in SUBSET participants_online[c] :
              /\ start_emails' =
                    [start_emails EXCEPT ![c] =
                        send_bulk_emails(@, delivered_inperson, delivered_online)]
              /\ IF delivered_inperson \cup delivered_online # {}
                 THEN ApplyCourse("send_course_start_email", c,
                          Course_save([course_rows[c] EXCEPT
                                          !.start_email_sent = TRUE],
                                      c, course_rows[c], tasks, now, "all"))
                 ELSE ApplyCourse("send_course_start_email", c,
                                  [row |-> course_rows[c], tasks |-> tasks])
              /\ UNCHANGED <<edits, completion_emails>>

\* courses.tasks.send_course_completion_email(course_id), likewise;
\* is_active is cleared with the flag
send_course_completion_email ==
    \E c \in AllCourseIds :
       IF \/ course_rows[c].state # "stored"
          \/ course_rows[c].completion_email_sent
          \/ participants_inperson[c] \cup participants_online[c] = {}
       THEN /\ ApplyCourse("send_course_completion_email", c,
                           [row |-> course_rows[c], tasks |-> tasks])
            /\ UNCHANGED <<edits, email_log>>
       ELSE \E delivered_inperson \in SUBSET participants_inperson[c],
               delivered_online \in SUBSET participants_online[c] :
              /\ completion_emails' =
                    [completion_emails EXCEPT ![c] =
                        send_bulk_emails(@, delivered_inperson, delivered_online)]
              /\ IF delivered_inperson \cup delivered_online # {}
                 THEN ApplyCourse("send_course_completion_email", c,
                          Course_save([course_rows[c] EXCEPT
                                          !.completion_email_sent = TRUE,
                                          !.is_active = FALSE],
                                      c, course_rows[c], tasks, now, "all"))
                 ELSE ApplyCourse("send_course_completion_email", c,
                                  [row |-> course_rows[c], tasks |-> tasks])
              /\ UNCHANGED <<edits, start_emails>>

\* The database with one customer and two courses stored: the first saved,
\* then the second, a day later in the week
FirstCourse == NewCourse("Pilates", 3, 5, 9, 10, 1, None)
SecondCourse == NewCourse("Pilates", 4, 5, 9, 10, 1, None)

InitParticipants ==
    /\ InitInvoices
    /\ customer_rows = {1}
    /\ rounding = "half_even"
    /\ LET first == Course_save(FirstCourse, 1, NoCourse, {}, 0, "all")
           second == Course_save(SecondCourse, 10, NoCourse, first.tasks, 0,
                                 "all")
       IN /\ course_rows = [c \in AllCourseIds |->
                               IF c = 1 THEN first.row ELSE second.row]
          /\ tasks = second.tasks

NextParticipants ==
    \/ participants_add
    \/ participants_remove
    \/ remove_participant_from_course
    \/ set_code_status
    \/ delete_participant_invoice

SpecParticipants == InitParticipants /\ [][NextParticipants]_vars

\* The database with all customers and the first course stored
InitEmails ==
    /\ InitInvoices
    /\ customer_rows = Customers
    /\ rounding = "half_even"
    /\ LET first == Course_save(FirstCourse, 1, NoCourse, {}, 0, "all")
       IN /\ course_rows = [c \in AllCourseIds |->
                               IF c = 1 THEN first.row ELSE NoCourse]
          /\ tasks = first.tasks

NextEmails ==
    \/ participants_add
    \/ participants_remove
    \/ send_course_start_email
    \/ send_course_completion_email

SpecEmails == InitEmails /\ [][NextEmails]_vars

\* ----------------------------------------------------------- two courses
\* The database with the second course stored, and the operations on the
\* first course
InitCoursePair ==
    /\ InitInvoices
    /\ customer_rows = Customers
    /\ rounding = "half_even"
    /\ LET second == Course_save(SecondCourse, 10, NoCourse, {}, 0, "all")
       IN /\ course_rows = [c \in AllCourseIds |->
                               IF c = 10 THEN second.row ELSE NoCourse]
          /\ tasks = second.tasks

NextCoursePair ==
    \/ Course_create
    \/ Course_edit
    \/ Course_delete
    \/ mark_start_email_sent
    \/ mark_completion_email_sent

SpecCoursePair == InitCoursePair /\ [][NextCoursePair]_vars

\* --------------------------------------------- the tax calculator, called
\* Net amounts: quarter cents around zero (negative ones too, as a
\* discount above the price leaves them), and amounts of the tests
TaxCalculatorAmounts ==
    {k * 25 : k \in -8 .. 40} \cup {3333 * Cent, EUR(100), 99999 * Cent}
TaxCalculatorRates == {0, 7, 19}

\* TaxCalculator(amount, tax_rate, is_tax_exempt): calculate_tax_amount()
\* and calculate_total().  The calculator keeps no state: one call is
\* followed.
CalculateTax ==
    /\ call.fn = "none"
    /\ \E amount \in TaxCalculatorAmounts, tax_rate \in TaxCalculatorRates,
          is_tax_exempt \in BOOLEAN :
         call' = [fn |-> "TaxCalculator", amount |-> amount,
                  tax_rate |-> tax_rate, is_tax_exempt |-> is_tax_exempt,
                  tax_amount |-> calculate_tax_amount(amount, tax_rate,
                                                      is_tax_exempt),
                  total_amount |-> calculate_total(amount, tax_rate,
                                                   is_tax_exempt)]
    /\ UNCHANGED invoice_vars

NextTax ==
    \/ CalculateTax

SpecTax == InitCourse /\ [][NextTax]_vars

\* ------------------------------------------------------- properties
Saves == {"create", "save", "set_amount", "set_code", "set_status",
          "admin_form", "set_dates"}

\* the last operation was a save() that returned without an exception
Saved == op \in Saves /\ err = "none"

AmountsOf(i) == <<i.amount, i.original_amount, i.discount_amount>>

\* C1: after every successful Invoice.save() the instance satisfies
\* amount = original_amount - discount_amount, with or without a code.
C1_AmountFormula ==
    Saved => inst.amount = inst.original_amount - inst.discount_amount

\* C1 witness: a save after the caller changed amount, with a code attached
\* that yields a discount
C1_Witness ==
    /\ op = "set_amount" /\ err = "none"
    /\ inst.discount_code # None /\ inst.discount_amount > 0
    /\ inst.amount = inst.original_amount - inst.discount_amount

\* C2: once the invoice has a row, no later operation changes the stored
\* original_amount (also not a save after the caller changed amount).
C2_OriginalAmountFixed ==
    [][row.pk # None => row'.original_amount = row.original_amount]_vars

\* C3: after a save the discount is calculate_discount(code,
\* original_amount), 0 without a code; 10 percent of 100.00 replaced by the
\* fixed 5.00 code gives amount 95.00.
C3_DiscountRecomputed ==
    Saved =>
      /\ inst.discount_amount =
           IF inst.discount_code = None THEN 0
           ELSE calculate_discount(inst.discount_code, inst.original_amount)
      /\ (inst.original_amount = EUR(100) /\ inst.discount_code = 2)
            => inst.amount = EUR(95)

\* C3 witness: the code of an invoice of 100.00 was set to the fixed 5.00
\* code and the amount is 95.00
C3_Witness ==
    /\ op = "set_code" /\ err = "none"
    /\ inst.discount_code = 2 /\ inst.original_amount = EUR(100)
    /\ inst.discount_amount = EUR(5) /\ inst.amount = EUR(95)

\* C4: a save with nothing changed that follows a successful save leaves
\* amount, original_amount and discount_amount of the instance as they were.
C4_SaveIdempotent ==
    [][(Saved /\ op' = "save" /\ err' = "none")
        => AmountsOf(inst') = AmountsOf(inst)]_vars

\* C4 witness: a second save of an invoice with a percentage discount
C4_Witness ==
    /\ op = "save" /\ err = "none"
    /\ inst.discount_code = 1 /\ inst.discount_amount > 0

\* C5: at most one income entry is linked to the invoice, and exactly one
\* after a successful save with status paid.
C5_OneIncomeEntry ==
    /\ Cardinality(IncomeOf(entries)) <= 1
    /\ (Saved /\ inst.status = "paid") => Cardinality(IncomeOf(entries)) = 1

\* C5 witness: a paid invoice saved again, one income entry
C5_Witness ==
    /\ op = "save" /\ err = "none" /\ inst.status = "paid"
    /\ row.status = "paid"
    /\ Cardinality(IncomeOf(entries)) = 1

\* C6: after a successful save with status cancelled of an invoice with an
\* income entry there is exactly one reversal entry, of the income entry's
\* amount.
C6_OneReversal ==
    (Saved /\ inst.status = "cancelled" /\ IncomeOf(entries) # {}) =>
      /\ Cardinality(ReversalOf(entries)) = 1
      /\ \A k \in ReversalOf(entries), j \in IncomeOf(entries) :
            entries[k].amount = entries[j].amount

\* C6 witness: a cancelled invoice with its income entry saved again
C6_Witness ==
    /\ op = "save" /\ err = "none" /\ inst.status = "cancelled"
    /\ IncomeOf(entries) # {}
    /\ Cardinality(ReversalOf(entries)) = 1

\* C7: an invoice stored as draft, sent or overdue has no accounting entry.
C7_NoEntryBeforePayment ==
    row.status \in {"draft", "sent", "overdue"} => entries = <<>>

\* C8: a successful save with status cancelled of an invoice without an
\* income entry creates no entry and leaves the invoice without entries.
C8_NoReversalWithoutIncome ==
    [][(IncomeOf(entries) = {} /\ op' \in Saves /\ err' = "none"
          /\ inst'.status = "cancelled")
        => (entries' = entries /\ entries' = <<>>)]_vars

\* C8 witness: an invoice cancelled by a save, never paid, no entries
C8_Witness ==
    /\ op = "set_status" /\ err = "none"
    /\ inst.status = "cancelled" /\ row.status = "cancelled"
    /\ entries = <<>>

\* C9: a row stored as cancelled stays cancelled and stays in the table.
C9_CancelledIsTerminal ==
    [][row.status = "cancelled"
        => (row'.status = "cancelled" /\ row'.pk # None)]_vars

\* C10: a save that changes the stored status to cancelled leaves the
\* stored amount, original_amount and discount_amount as they were.
C10_CancellationKeepsAmounts ==
    [][(row.pk # None /\ row.status # "cancelled" /\ row'.status = "cancelled"
          /\ op' = "set_status" /\ err' = "none")
        => AmountsOf(row') = AmountsOf(row)]_vars

\* C11: a save of an invoice with neither course nor offer raises the
\* ValueError of Invoice.save and persists nothing: the invoice row and the
\* accounting entries are as before the call.
C11_NoSourceRejected ==
    [][(op' \in Saves /\ inst'.course = None /\ inst'.offer = None)
        => (err' = "ValueError" /\ row' = row /\ entries' = entries)]_vars

\* C11 witness: a first save without course and offer failed, no row and
\* no entry exist
C11_Witness ==
    /\ op = "create" /\ err = "ValueError"
    /\ inst.course = None /\ inst.offer = None /\ inst.amount = EUR(100)
    /\ row.pk = None /\ entries = <<>>

C13_CodeOfOwnCustomer ==
    (row.pk # None /\ row.discount_code # None)
       => CodeCustomer(row.discount_code) = row.customer

\* C14: after a successful save of an invoice with a discount code attached
\* the code has status used and its used_at is set.
C14_RedeemedCodeIsUsed ==
    (Saved /\ inst.discount_code # None)
       => /\ code_status[inst.discount_code] = "used"
          /\ code_used_at[inst.discount_code] # None

\* C15: when a save removes or replaces the discount code of an existing
\* invoice and the code attached before had status used, that code has
\* status sent afterwards.
C15_ReleasedCodeIsSent ==
    [][(row.pk # None /\ row.discount_code # None
          /\ code_status[row.discount_code] = "used"
          /\ op' \in {"set_code", "admin_form"} /\ err' = "none"
          /\ row'.discount_code # row.discount_code)
        => code_status'[row.discount_code] = "sent"]_vars

C17_DiscountAtMostAmount ==
    call.fn = "calculate_discount" =>
       /\ call.result <= call.amount
       /\ call.discount_type = "fixed"
             => call.result = Min(call.discount_value, call.amount)
       /\ call.amount - call.result >= 0

\* the scheduled tasks of a kind that carry the id of course c
TasksOf(c, task_function) ==
    {x \in tasks : x.args = c /\ x.task = task_function}

\* C18: each course has at most one scheduled start-notification task and
\* at most one scheduled completion-notification task.
C18_OneTaskPerKind ==
    \A c \in CourseIds :
       /\ Cardinality(TasksOf(c, "courses.tasks.send_course_start_email")) <= 1
       /\ Cardinality(TasksOf(c, "courses.tasks.send_course_completion_email")) <= 1

\* C19: no scheduled task of a deleted course remains.
C19_NoTaskAfterDelete ==
    \A c \in CourseIds :
       course_rows[c] = DeletedCourse => \A x \in tasks : x.args # c

\* C20: a stored course whose completion email is marked as sent is not
\* active.
C20_SentMeansInactive ==
    \A c \in CourseIds :
       (course_rows[c].state = "stored" /\ course_rows[c].completion_email_sent)
          => ~course_rows[c].is_active

\* the elements of a sequence
Elems(s) == {s[k] : k \in DOMAIN s}

\* C21: for start_date <= end_date the enumerated course dates are exactly
\* the dates start_date + 7k (k >= 0) up to end_date that are no holiday of
\* the calendar, each once and in ascending order; none of them is a
\* holiday of the range.
C21_CourseDatesSkipHolidays ==
    (call.fn = "get_course_dates" /\ call.err = "none"
       /\ call.start_date <= call.end_date) =>
      /\ Elems(call.result) =
           {d \in call.start_date .. call.end_date :
               (d - call.start_date) % 7 = 0 /\ d \notin call.cal}
      /\ Elems(call.result) \cap call.holidays = {}
      /\ \A j, k \in DOMAIN call.result :
            j < k => call.result[j] < call.result[k]

\* C21 witness: a range over the turn of the year with a holiday on its
\* second date, in the second year; the first and the third date are
\* enumerated
C21_Witness ==
    /\ call.fn = "get_course_dates" /\ call.err = "none"
    /\ call.start_date = 358 /\ call.end_date = 372
    /\ call.cal = {365}
    /\ call.result = <<358, 372>>

\* the largest number in use in a year, 0 when there is none
HighestNumber(table, year) ==
    LET used == {ParseInt(x.seq) : x \in NumbersOfYear(table, year)}
    IN IF used = {} THEN 0 ELSE CHOOSE m \in used : \A k \in used : k <= m

\* C22: generate returns a number of the current year whose sequence part
\* is one greater than the highest sequence number in use in that year
\* (001 when there is none) and which is the number of no existing
\* invoice.
C22_NextNumberIsFresh ==
    call.fn = "generate" =>
       /\ call.result.year = call.year
       /\ ParseInt(call.result.seq) = HighestNumber(call.table, call.year) + 1
       /\ call.result \notin call.table

\* C23: after every successful save of an invoice its due_date is not
\* before its issue_date.
C23_DueNotBeforeIssue ==
    Saved => inst.due_date >= inst.issue_date

\* C24: for every net amount, tax rate and exemption flag, total_amount
\* minus tax_amount is within one cent of the amount; tax_amount is 0 for a
\* tax-exempt invoice and otherwise a number of cents within half a cent of
\* amount * tax_rate / 100.
C24_TotalMinusTaxIsAmount ==
    call.fn = "TaxCalculator" =>
       /\ call.total_amount - call.tax_amount - call.amount <= Cent
       /\ call.amount - (call.total_amount - call.tax_amount) <= Cent
       /\ call.is_tax_exempt => call.tax_amount = 0
       /\ ~call.is_tax_exempt =>
            /\ call.tax_amount % Cent = 0
            /\ 100 * call.tax_amount - call.amount * call.tax_rate <= 50 * Cent
            /\ call.amount * call.tax_rate - 100 * call.tax_amount <= 50 * Cent

\* C24 witness: 33.33 at 7 percent: tax 2.33 (of 2.3331), total 35.66
C24_Witness ==
    /\ call.fn = "TaxCalculator" /\ ~call.is_tax_exempt
    /\ call.amount = 3333 * Cent /\ call.tax_rate = 7
    /\ call.tax_amount = 233 * Cent /\ call.total_amount = 3566 * Cent

\* C25: the stored weekday of every stored course with a start_date is the
\* weekday of its start_date (0 is Monday), whatever weekday the caller
\* gave.
C25_WeekdayOfStartDate ==
    \A c \in CourseIds :
       (course_rows[c].state = "stored" /\ course_rows[c].start_date # None)
          => course_rows[c].weekday = course_rows[c].start_date % 7

\* C25 witness: a course was created on a Thursday (the caller gave no
\* weekday or Monday) and is stored with weekday 3
C25_Witness ==
    /\ op = "course_create"
    /\ course_rows[1].state = "stored"
    /\ course_rows[1].start_date = 3 /\ course_rows[1].weekday = 3

\* C26: a save of an invoice that is stored as cancelled does not carry out
\* the side effects of the cancellation again: the discount codes are left
\* as they are (no code is released a second time).
C26_CancellationEffectsOnce ==
    [][(row.pk # None /\ row.status = "cancelled"
          /\ op' \in Saves /\ err' = "none" /\ inst'.status = "cancelled")
        => code_used_at' = code_used_at]_vars

\* C27: the tasks send no participant the start email more than once, nor
\* the completion email.
C27_EmailAtMostOnce ==
    \A c \in AllCourseIds, p \in Customers :
       start_emails[c][p] <= 1 /\ completion_emails[c][p] <= 1

\* C28: after any additions to and removals from the two participant
\* lists, at most one automatically created invoice exists for a customer
\* and a course.
C28_OneInvoicePerParticipant ==
    \A pair \in DOMAIN invoice_table : invoice_table[pair] <= 1

\* a customer put on both lists of the course with a price
C28_Witness ==
    /\ op = "participants_add"
    /\ \E p \in customer_rows :
         /\ p \in participants_inperson[10] \cap participants_online[10]
         /\ invoice_table[<<p, 10>>] = 1

\* the customers a step takes off a list of course k
RemovedFrom(k) ==
    (participants_inperson[k] \ participants_inperson'[k])
        \cup (participants_online[k] \ participants_online'[k])

\* C29: taking a customer off a course cancels that customer's planned and
\* sent codes of that course and changes no other code.
C29_RemovalCancelsOnlyOwnCodes ==
    [][op' \in {"participants_remove", "cancel_invoice"}
        => \A pair \in DOMAIN participant_codes :
              participant_codes'[pair] =
                 IF /\ pair[1] \in RemovedFrom(pair[2])
                    /\ participant_codes[pair] \in {"planned", "sent"}
                 THEN "cancelled" ELSE participant_codes[pair]]_vars

\* C30: saving or deleting a course leaves the scheduled tasks of every
\* other course as they are.
C30_OtherCoursesTasksUntouched ==
    [][\A c \in AllCourseIds :
          (course_rows'[c] = course_rows[c])
             => {x \in tasks' : x.args = c} = {x \in tasks : x.args = c}]_vars

====
